---- MODULE Spec2Model ----
(***************************************************************************)
(* pdd: a block-oriented copy-and-distribute tool (src/src/main.rs).       *)
(*                                                                         *)
(* main() parses the command line, creates a tokio broadcast channel of    *)
(* capacity 64, opens the input, opens every output file and spawns one    *)
(* writer task per output, then reads the input block by block and sends   *)
(* every block on the channel.  Each writer task receives blocks from its  *)
(* own receiver and writes them to its file.                               *)
(*                                                                         *)
(* Bytes are modelled as numbers: the i-th byte of the input is i (never   *)
(* 0), the zero fill of a fresh buffer is 0.  The input is a regular file: *)
(* read() returns min(block_size, bytes left), or an error.                *)
(***************************************************************************)
EXTENDS Integers, Sequences, FiniteSets

\* ------------------------------------------------------------------ bounds
MaxLen == 5
MaxBlockSize == 2
MaxCount == 2
MaxSinks == 2
MaxFailAt == 2
MaxSends == 4
LagSlack == 2
MaxArgs == 5
MaxOpArgs == 4

\* ------------------------------------------------------- program constants
\* broadcast::channel::<Vec<u8>>(64)
Capacity == 64
\* Argies::default().block_count
DefaultBlockCount == 0
\* Argies::default().block_size
DefaultBlockSize == 1024
\* OperationBuilder::default().block_size
BuilderBlockSize == 1024
\* OperationBuilder::default().count
BuilderCount == 0

VARIABLES
    args,           \* std::env::args(): the command line, program name first
    arguments,      \* what arguments::Arguments::parse returned, <<>> when not called
    input_file,     \* args.input_file: <<>> is None, <<path>> is Some(path)
    input,          \* the bytes of the input file
    block_size,     \* args.block_size
    block_count,    \* args.block_count
    output_files,   \* args.output_files: the outputs are numbered 1..output_files
    canOpen,        \* environment: the outputs whose path OpenOptions can open
    failAt,         \* environment: failAt[s] = j > 0: the j-th write of s fails
    pc,             \* where main() is: "open", "loop", "returned", "exited"
    result,         \* what main() returned: "none", "ok", "err"
    opened,         \* number of output_files the for loop has gone through
    offset,         \* the read position of the input file
    count,          \* main's local count
    reads,          \* number of input.read calls issued
    readN,          \* readN[i]: the n of the read that produced the i-th sent block
    sent,           \* every block given to tx.send, in order (the channel's history)
    task,           \* task[s]: "none", "openFailed", "running", "ended", "lagged", "killed"
    next,           \* next[s]: receiver s has taken the channel values 1..next[s]
    handed,         \* handed[s]: the channel positions passed to write_block, in order
    handedBlock,    \* handedBlock[s]: the blocks passed to write_block, in order
    written,        \* written[s]: the bytes file.write accepted, in order
    failed,         \* failed[s]: the write_block calls (by number) whose write failed
    printed,        \* printed[s]: what the writer task of s printed, in order
    file            \* file[s]: the bytes of the file at the path of output s

vars == <<args, arguments, input_file, input, block_size, block_count, output_files, canOpen, failAt, pc, result,
          opened, offset, count, reads, readN, sent, task, next, handed, handedBlock,
          written, failed, printed, file>>

config == <<args, arguments, input_file, input, block_size, block_count, output_files,
            canOpen, failAt>>
reader == <<offset, count, reads, readN, sent>>
writers == <<task, next, handed, handedBlock, written, failed, printed, file>>

Sinks == 1..MaxSinks

Min(a, b) == IF a < b THEN a ELSE b

\* the input file of length len
InputOf(len) == [i \in 1..len |-> i]

\* vec![0u8; args.block_size]
ZeroBuffer(size) == [i \in 1..size |-> 0]

\* input.read(&mut buffer): the n of a successful read of a regular file
ReadLen == Min(block_size, Len(input) - offset)

\* input.read(&mut buffer): the buffer after the read (a fresh zeroed buffer whose
\* first n bytes are the bytes read)
ReadInto(buffer, n) ==
    [i \in 1..Len(buffer) |-> IF i <= n THEN input[offset + i] ELSE buffer[i]]

\* if args.block_count > 0 && count >= args.block_count { break; }
CapReachedLate == block_count > 0 /\ count > block_count
CapReached == block_count > 0 /\ count >= block_count

\* tx.send(buffer): the buffer is moved into the channel as it is
SentBlock(buffer, n) == buffer

\* Receiver::recv: the receiver missed values the channel has overwritten
Lagged(s) == Len(sent) - next[s] > Capacity

\* Receiver::recv: the channel position of the value recv returns
RecvIndexNewest(s) == Len(sent)
RecvIndex(s) == next[s] + 1

\* Receiver::recv: the receiver's own cursor moves past the value taken
AdvanceShared(s) == [t \in Sinks |-> next[t] + 1]
Advance(s) == [next EXCEPT ![s] = @ + 1]

\* file.write(&block): the outcome of the write_block call number call of sink s
WriteFails(s, call) == failAt[s] = call

\* while let Ok(block) = file.rx.recv().await: does the task go on after a write?
AfterWrite(s, call) == "running"

\* while let Ok(block) = file.rx.recv().await: recv returned Err(Lagged(n)), which
\* is no Ok(block): the loop is over and the task ends
AfterLagResume(s) == "running"
AfterLag(s) == "lagged"

\* The file system before the run: the path of output 1 names a file of 3 bytes
\* (each 9, a value no input and no fresh buffer holds), the other paths no file.
OldContent(s) == IF s = 1 THEN <<9, 9, 9>> ELSE <<>>

\* OpenOptions::new().create(true).write(true).open(path): a missing file is
\* created empty, an existing one keeps its bytes; the handle's position is 0
OpenFile(content) == content

\* file.write(&block) with the handle at position at: the bytes at..at+len are
\* replaced, the file grows when the write goes past its end
WriteAt(content, at, block) ==
    LET end == at + Len(block)
        size == IF Len(content) > end THEN Len(content) ELSE end
    IN [i \in 1..size |-> IF i > at /\ i <= end THEN block[i - at] ELSE content[i]]

\* println!("wrote {n} bytes to {}", ..)
PrintWrote(n) == <<"wrote", n>>

\* eprintln!("failed to write block to {}: {e}", ..)
PrintFailed == <<"failed">>

\* ------------------------------------------------------- the command line
\* One argument of the command line.  Word(w) is an argument without '=',
\* Tok(k, v) is the argument k=v (its first '=' splits it into k and v).
Word(w) == [eq |-> FALSE, k |-> w, v |-> ""]
Tok(k, v) == [eq |-> TRUE, k |-> k, v |-> v]

\* const SEPARATOR: &'static str = "--"
SEPARATOR == Word("--")

\* the paths that name an existing file when the program starts
ExistingPaths == {"in", "a", "b"}

\* str::to_ascii_lowercase, on the strings of the model
Lower(str) ==
    CASE str = "OF" -> "of"
      [] str = "IF" -> "if"
      [] str = "X" -> "x"
      [] OTHER -> str

\* str::trim, on the strings of the model
Trim(str) ==
    CASE str = " x" -> "x"
      [] str = " of" -> "of"
      [] OTHER -> str

\* str::parse::<usize>, ::<u64>, ::<u16>: the number a decimal numeral denotes,
\* -1 when the string is no numeral (Err)
ParseNum(str) ==
    CASE str = "0" -> 0
      [] str = "1" -> 1
      [] str = "2" -> 2
      [] str = "3" -> 3
      [] str = "9" -> 9
      [] OTHER -> -1

\* the decimal numeral of n
Numeral(n) ==
    CASE n = 0 -> "0"
      [] n = 1 -> "1"
      [] n = 2 -> "2"
      [] n = 3 -> "3"
      [] OTHER -> "9"

\* str::split_once(c) on a value: <<>> when c does not occur (None), else
\* <<before, after>>
SplitOnce(str, c) ==
    CASE str = "h:9" /\ c = ":" -> <<"h", "9">>
      [] str = ":9" /\ c = ":" -> <<"", "9">>
      [] str = "h:p" /\ c = ":" -> <<"h", "p">>
      [] str = "GET;u" /\ c = ";" -> <<"GET", "u">>
      [] str = "PUT;w" /\ c = ";" -> <<"PUT", "w">>
      [] OTHER -> <<>>

Err(msg) == [ok |-> FALSE, err |-> msg]

\* ------------------------------------------- main.rs: Argument::parse
\* Argies::default()
ArgiesDefault ==
    [input_file |-> <<>>, output_files |-> <<>>,
     block_size |-> DefaultBlockSize, block_count |-> DefaultBlockCount]

\* Argument::parse: the for loop from argument i on, with args the Argies so far
RECURSIVE ArgumentParseFrom(_, _, _)
ArgumentParseFrom(argv, i, a) ==
    IF i > Len(argv)
    THEN IF a.input_file = <<>>
         THEN Err("No input file given")
         ELSE [ok |-> TRUE, args |-> a]
    ELSE LET arg == argv[i]
             lhs == Lower(arg.k)
             rhs == Lower(arg.v)
         IN IF ~arg.eq
            THEN ArgumentParseFrom(argv, i + 1, a)
            ELSE CASE lhs = "if" ->
                        IF rhs \notin ExistingPaths
                        THEN Err("Input file does not exist")
                        ELSE ArgumentParseFrom(argv, i + 1, [a EXCEPT !.input_file = <<rhs>>])
                   [] lhs = "of" ->
                        ArgumentParseFrom(argv, i + 1,
                                          [a EXCEPT !.output_files = Append(@, rhs)])
                   [] lhs = "bs" ->
                        IF ParseNum(rhs) < 0
                        THEN Err("Invalid block size")
                        ELSE ArgumentParseFrom(argv, i + 1,
                                               [a EXCEPT !.block_size = ParseNum(rhs)])
                   [] lhs = "count" ->
                        IF ParseNum(rhs) < 0
                        THEN Err("Invalid block count")
                        ELSE ArgumentParseFrom(argv, i + 1,
                                               [a EXCEPT !.block_count = ParseNum(rhs)])
                   [] OTHER -> ArgumentParseFrom(argv, i + 1, a)

\* Argument::parse()
ArgumentParseOf(argv) == ArgumentParseFrom(argv, 1, ArgiesDefault)

\* ------------------------------------- arguments.rs: Arguments::parse
\* OperationBuilder::default()
BuilderDefault ==
    [input_file |-> <<>>, outputs |-> <<>>, is_redirected |-> FALSE,
     block_size |-> BuilderBlockSize, count |-> BuilderCount]

\* Output::File, Output::Socket, Output::Http
OutputFile(path) == [kind |-> "File", path |-> path]
OutputSocket(host, port) == [kind |-> "Socket", host |-> host, port |-> port]
OutputHttp(method, url) == [kind |-> "Http", method |-> method, url |-> url]

\* OperationBuilder::build
Build(op) ==
    IF op.input_file = <<>>
    THEN Err("Operation is missing input file")
    ELSE IF op.outputs = <<>>
         THEN Err("Operation must have at least one output")
         ELSE [ok |-> TRUE,
               op |-> [input_file |-> op.input_file[1], outputs |-> op.outputs,
                       block_size |-> op.block_size, is_redirected |-> op.is_redirected,
                       count |-> op.count]]

\* Arguments::parse: the "ohttp" arm (split_once(';'), and nothing done with the
\* method and the url it yields)
OhttpArm(op, method, url) == op

\* Arguments::parse: the for loop from argument i on, with the builder op and the
\* operations built so far
RECURSIVE ArgumentsParseFrom(_, _, _, _)
ArgumentsParseFrom(argv, i, op, operations) ==
    IF i > Len(argv)
    THEN IF op.input_file # <<>>
         THEN IF Build(op).ok
              THEN [ok |-> TRUE, operations |-> Append(operations, Build(op).op)]
              ELSE Build(op)
         ELSE [ok |-> TRUE, operations |-> operations]
    ELSE LET arg == argv[i]
             lhs == Trim(arg.k)
             rhs == Trim(arg.v)
         IN IF arg = SEPARATOR
            THEN IF Build(op).ok
                 THEN ArgumentsParseFrom(argv, i + 1, BuilderDefault,
                                         Append(operations, Build(op).op))
                 ELSE Build(op)
            ELSE IF ~arg.eq
            THEN Err("Invalid command line argument, expected key=value pair")
            ELSE CASE lhs = "if" ->
                        ArgumentsParseFrom(argv, i + 1, [op EXCEPT !.input_file = <<rhs>>],
                                           operations)
                   [] lhs = "of" ->
                        ArgumentsParseFrom(argv, i + 1,
                            [op EXCEPT !.outputs = Append(@, OutputFile(rhs))], operations)
                   [] lhs = "os" ->
                        LET hp == SplitOnce(rhs, ":")
                        IN IF hp = <<>>
                           THEN Err("Invalid command line argument, expected os=hostname:port")
                           ELSE IF ParseNum(hp[2]) < 0
                           THEN Err("invalid digit found in string")
                           ELSE ArgumentsParseFrom(argv, i + 1,
                                    [op EXCEPT !.outputs = Append(@,
                                        OutputSocket(IF hp[1] = "" THEN "localhost" ELSE hp[1],
                                                     ParseNum(hp[2])))],
                                    operations)
                   [] lhs = "ohttp" ->
                        LET mu == SplitOnce(rhs, ";")
                        IN IF mu = <<>>
                           THEN Err("Invalid command line argument, expected ohttp=[METHOD];[URL]")
                           ELSE ArgumentsParseFrom(argv, i + 1, OhttpArm(op, mu[1], mu[2]),
                                                   operations)
                   [] lhs = "bs" ->
                        IF ParseNum(rhs) < 0
                        THEN Err("invalid digit found in string")
                        ELSE ArgumentsParseFrom(argv, i + 1,
                                 [op EXCEPT !.block_size = ParseNum(rhs)], operations)
                   [] lhs \in {"count", "c"} ->
                        IF ParseNum(rhs) < 0
                        THEN Err("invalid digit found in string")
                        ELSE ArgumentsParseFrom(argv, i + 1,
                                 [op EXCEPT !.count = ParseNum(rhs)], operations)
                   [] lhs = "redir" ->
                        ArgumentsParseFrom(argv, i + 1,
                            [op EXCEPT !.is_redirected = ~op.is_redirected], operations)
                   [] OTHER -> Err("Invalid command line argument, unexpected input")

\* Arguments::parse()
ArgumentsParseOf(argv) == ArgumentsParseFrom(argv, 1, BuilderDefault, <<>>)

\* the path of output s of a command line pdd if=in of=o1 of=o2 ..
OutPath(s) ==
    CASE s = 1 -> "o1"
      [] s = 2 -> "o2"
      [] OTHER -> "o3"

\* the command line pdd if=in of=o1 .. of=on bs=<size> count=<cnt>
CommandLine(size, cnt, n) ==
    <<Word("pdd"), Tok("if", "in")>> \o [s \in 1..n |-> Tok("of", OutPath(s))]
        \o <<Tok("bs", Numeral(size)), Tok("count", Numeral(cnt))>>

\* ------------------------------------------------------------------- Init
\* The state when main() has parsed its arguments (Argument::parse returned Ok),
\* created the channel and opened the input.
InitCommon ==
    /\ pc = "open"
    /\ result = "none"
    /\ opened = 0
    /\ offset = 0
    /\ count = 0
    /\ reads = 0
    /\ readN = <<>>
    /\ sent = <<>>
    /\ task = [s \in Sinks |-> "none"]
    /\ next = [s \in Sinks |-> 0]
    /\ handed = [s \in Sinks |-> <<>>]
    /\ handedBlock = [s \in Sinks |-> <<>>]
    /\ written = [s \in Sinks |-> <<>>]
    /\ failed = [s \in Sinks |-> {}]
    /\ printed = [s \in Sinks |-> <<>>]
    /\ file = [s \in Sinks |-> OldContent(s)]

Init ==
    /\ input \in {InputOf(len) : len \in 0..MaxLen}
    /\ block_size \in 0..MaxBlockSize
    /\ block_count \in 0..MaxCount
    /\ output_files \in 0..MaxSinks
    /\ canOpen \in SUBSET (1..output_files)
    /\ failAt \in [Sinks -> 0..MaxFailAt]
    /\ \A s \in Sinks : s > output_files => failAt[s] = 0
    /\ args = CommandLine(block_size, block_count, output_files)
    /\ input_file = <<"in">>
    /\ arguments = <<>>
    /\ InitCommon

\* ----------------------------------------------------------------- main()
\* for output_file in args.output_files: subscribe, OutFile::new(..)?, spawn
OpenOutput ==
    /\ pc = "open"
    /\ opened < output_files
    /\ opened' = opened + 1
    /\ IF opened + 1 \in canOpen
       THEN /\ task' = [task EXCEPT ![opened + 1] = "running"]
            /\ file' = [file EXCEPT ![opened + 1] = OpenFile(@)]
            /\ UNCHANGED <<pc, result>>
       ELSE /\ task' = [task EXCEPT ![opened + 1] = "openFailed"]
            /\ pc' = "returned"
            /\ result' = "err"
            /\ UNCHANGED file
    /\ UNCHANGED <<config, reader, next, handed, handedBlock, written, failed, printed>>

\* the for loop is over: let mut buffer = ..; let mut count = 0;
StartLoop ==
    /\ pc = "open"
    /\ opened = output_files
    /\ pc' = "loop"
    /\ UNCHANGED <<config, result, opened, reader, writers>>

\* One iteration of while let Ok(n) = input.read(&mut buffer) with a successful read.
ReadOk(limit) ==
    /\ pc = "loop"
    /\ CapReached \/ Len(sent) < limit
    /\ reads' = reads + 1
    /\ offset' = offset + ReadLen
    /\ IF CapReached
       THEN /\ pc' = "returned"
            /\ result' = "ok"
            /\ UNCHANGED <<count, readN, sent>>
       ELSE /\ count' = count + 1
            /\ sent' = Append(sent, SentBlock(ReadInto(ZeroBuffer(block_size), ReadLen), ReadLen))
            /\ readN' = Append(readN, ReadLen)
            /\ UNCHANGED <<pc, result>>
    /\ UNCHANGED <<config, opened, writers>>

\* input.read returns Err: the while let loop ends and main returns Ok(())
ReadErr ==
    /\ pc = "loop"
    /\ reads' = reads + 1
    /\ pc' = "returned"
    /\ result' = "ok"
    /\ UNCHANGED <<config, opened, offset, count, readN, sent, writers>>

\* main has returned and the runtime is dropped: every task still alive is dropped
Exit ==
    /\ pc = "returned"
    /\ pc' = "exited"
    /\ task' = [s \in Sinks |-> IF task[s] = "running" THEN "killed" ELSE task[s]]
    /\ UNCHANGED <<config, result, opened, reader, next, handed, handedBlock, written, failed,
                   printed, file>>

\* ---------------------------------------------------------- writer tasks
\* One iteration of while let Ok(block) = file.rx.recv().await { file.write_block(block) }
\* in which recv returns a block.
WriterStep(s) ==
    /\ task[s] = "running"
    /\ pc # "exited"
    /\ next[s] < Len(sent)
    /\ IF Lagged(s)
       THEN /\ task' = [task EXCEPT ![s] = AfterLag(s)]
            /\ next' = [next EXCEPT ![s] = Len(sent) - Capacity]
            /\ UNCHANGED <<handed, handedBlock, written, failed, printed, file>>
       ELSE LET i == RecvIndex(s)
                call == Len(handed[s]) + 1
            IN /\ next' = Advance(s)
               /\ handed' = [handed EXCEPT ![s] = Append(@, i)]
               /\ handedBlock' = [handedBlock EXCEPT ![s] = Append(@, sent[i])]
               /\ IF WriteFails(s, call)
                  THEN /\ failed' = [failed EXCEPT ![s] = @ \cup {call}]
                       /\ printed' = [printed EXCEPT ![s] = Append(@, PrintFailed)]
                       /\ UNCHANGED <<written, file>>
                  ELSE /\ written' = [written EXCEPT ![s] = @ \o sent[i]]
                       /\ file' = [file EXCEPT ![s] = WriteAt(@, Len(written[s]), sent[i])]
                       /\ printed' = [printed EXCEPT ![s] = Append(@, PrintWrote(Len(sent[i])))]
                       /\ UNCHANGED failed
               /\ task' = [task EXCEPT ![s] = AfterWrite(s, call)]
    /\ UNCHANGED <<config, pc, result, opened, reader>>

\* recv returns Err(Closed): the sender is dropped (main returned) and the
\* receiver has taken every value
WriterClosed(s) ==
    /\ task[s] = "running"
    /\ pc = "returned"
    /\ next[s] = Len(sent)
    /\ task' = [task EXCEPT ![s] = "ended"]
    /\ UNCHANGED <<config, pc, result, opened, reader, next, handed, handedBlock, written,
                   failed, printed, file>>

Next ==
    \/ OpenOutput
    \/ StartLoop
    \/ ReadOk(MaxSends)
    \/ ReadErr
    \/ Exit
    \/ \E s \in Sinks : WriterStep(s)
    \/ \E s \in Sinks : WriterClosed(s)

Spec == Init /\ [][Next]_vars

\* ------------------------------------------------- a run that overflows the channel
\* One command line, pdd if=<1 byte> of=a of=b bs=1, read far enough past the
\* channel's capacity for a slow writer task to lag.
InitLag ==
    /\ input = InputOf(1)
    /\ block_size = 1
    /\ block_count = DefaultBlockCount
    /\ output_files = 2
    /\ canOpen = {1, 2}
    /\ failAt = [s \in Sinks |-> 0]
    /\ args = <<Word("pdd"), Tok("if", "in"), Tok("of", "o1"), Tok("of", "o2"), Tok("bs", "1")>>
    /\ input_file = <<"in">>
    /\ arguments = <<>>
    /\ InitCommon

NextLag ==
    \/ OpenOutput
    \/ StartLoop
    \/ ReadOk(Capacity + LagSlack)
    \/ ReadErr
    \/ Exit
    \/ \E s \in Sinks : WriterStep(s)
    \/ \E s \in Sinks : WriterClosed(s)

SpecLag == InitLag /\ [][NextLag]_vars

\* ---------------------------------------------- main() from the command line
\* the arguments the command lines of SpecArgs are made of
MainTokens ==
    {Word("pdd"), SEPARATOR, Tok("if", "a"), Tok("if", "b"), Tok("if", "z"),
     Tok("of", "x"), Tok("OF", "y"), Tok("bs", "0"), Tok("bs", "k"), Tok("count", "1")}

\* the sequences of at most n elements of T
SeqsUpTo(T, n) == UNION {[1..k -> T] : k \in 0..n}

\* the number of of= arguments of a command line, as Argument::parse reads it
NumOutputs(argv) ==
    Cardinality({i \in 1..Len(argv) : argv[i].eq /\ Lower(argv[i].k) = "of"})

\* the bytes of the input file at path
FileBytes(path) == IF path = "a" THEN InputOf(1) ELSE InputOf(2)

\* The state when the process starts: nothing parsed, nothing opened.  Every output
\* path can be opened and no write fails.
InitStart ==
    /\ arguments = <<>>
    /\ input_file = ArgiesDefault.input_file
    /\ input = <<>>
    /\ block_size = ArgiesDefault.block_size
    /\ block_count = ArgiesDefault.block_count
    /\ output_files = Len(ArgiesDefault.output_files)
    /\ canOpen = Sinks
    /\ failAt = [s \in Sinks |-> 0]
    /\ pc = "parse"
    /\ result = "none"
    /\ opened = 0
    /\ offset = 0
    /\ count = 0
    /\ reads = 0
    /\ readN = <<>>
    /\ sent = <<>>
    /\ task = [s \in Sinks |-> "none"]
    /\ next = [s \in Sinks |-> 0]
    /\ handed = [s \in Sinks |-> <<>>]
    /\ handedBlock = [s \in Sinks |-> <<>>]
    /\ written = [s \in Sinks |-> <<>>]
    /\ failed = [s \in Sinks |-> {}]
    /\ printed = [s \in Sinks |-> <<>>]
    /\ file = [s \in Sinks |-> OldContent(s)]

InitArgs ==
    /\ args \in SeqsUpTo(MainTokens, MaxArgs)
    /\ NumOutputs(args) <= MaxSinks
    /\ InitStart

\* let args = Argument::parse()?; .. let input_file = args.input_file.unwrap();
\* let mut input = OpenOptions::new().read(true).open(&input_file)?;
ArgumentParse ==
    /\ pc = "parse"
    /\ LET r == ArgumentParseOf(args)
       IN IF r.ok
          THEN /\ input_file' = r.args.input_file
               /\ input' = FileBytes(r.args.input_file[1])
               /\ block_size' = r.args.block_size
               /\ block_count' = r.args.block_count
               /\ output_files' = Len(r.args.output_files)
               /\ pc' = "open"
               /\ UNCHANGED result
          ELSE /\ pc' = "returned"
               /\ result' = "err"
               /\ UNCHANGED <<input_file, input, block_size, block_count, output_files>>
    /\ UNCHANGED <<args, arguments, canOpen, failAt, opened, reader, writers>>

\* main() up to the start of the read loop
NextArgs ==
    \/ ArgumentParse
    \/ OpenOutput
    \/ StartLoop
    \/ Exit

SpecArgs == InitArgs /\ [][NextArgs]_vars

\* ------------------------------------------ arguments.rs: Arguments::parse
\* the arguments the command lines of SpecArguments are made of
OpTokens ==
    {Word("pdd"), SEPARATOR, Tok("if", "a"), Tok("if", "b"), Tok("of", "x"), Tok("of", " x"),
     Tok("OF", "y"), Tok("os", "h:9"), Tok("os", ":9"), Tok("os", "h"), Tok("os", "h:p"),
     Tok("ohttp", "GET;u"), Tok("ohttp", "u"), Tok("bs", "2"), Tok("bs", "k"),
     Tok("c", "2"), Tok("count", "1"), Tok("redir", "1")}

InitArguments ==
    /\ args \in SeqsUpTo(OpTokens, MaxOpArgs)
    /\ InitStart

\* Arguments::parse() is called on the command line
ArgumentsParse ==
    /\ arguments = <<>>
    /\ arguments' = <<ArgumentsParseOf(args)>>
    /\ UNCHANGED <<args, input_file, input, block_size, block_count, output_files, canOpen,
                   failAt, pc, result, opened, reader, writers>>

NextArguments == ArgumentsParse

SpecArguments == InitArguments /\ [][NextArguments]_vars

\* ------------------------------------------------------------- properties
CeilDiv(a, b) == (a + b - 1) \div b

\* the input, truncated to block_count * block_size when block_count > 0
Expected ==
    IF block_count > 0
    THEN SubSeq(input, 1, Min(Len(input), block_count * block_size))
    ELSE input

\* a run on a non-empty input with a block size the buffer can hold bytes in
ProperRun == block_size > 0 /\ Len(input) > 0

\* C1: with block_count = K > 0 the reader has sent at most K blocks and every sink
\* has been handed at most K blocks, in every reachable state.
C1_AtMostKBlocks ==
    block_count > 0 =>
        /\ Len(sent) <= block_count
        /\ \A s \in Sinks : Len(handed[s]) <= block_count

\* C1 witness: the input holds more than K blocks, the loop has ended at the cap and
\* a sink has been handed exactly K blocks.
C1_Witness ==
    /\ block_count > 0
    /\ block_size > 0
    /\ Len(input) > block_count * block_size
    /\ pc = "returned"
    /\ reads = block_count + 1
    /\ Len(sent) = block_count
    /\ \E s \in Sinks : Len(handed[s]) = block_count

\* C2 (as claimed): a read of 0 bytes is end-of-input, so no block is sent for a
\* read that returned 0.
C2_ZeroReadSendsNothing ==
    ProperRun => \A i \in 1..Len(readN) : readN[i] # 0

\* C3 (as claimed): with block_count = 0 and block_size = B > 0 a sink is never
\* handed more than ceil(L / B) blocks.
C3_BlocksDeliveredIsCeil ==
    (block_count = 0 /\ ProperRun) =>
        \A s \in Sinks : Len(handed[s]) <= CeilDiv(Len(input), block_size)

\* C4 (as claimed): every block sent for a read of n > 0 bytes has length n.
C4_BlockIsBytesRead ==
    \A i \in 1..Len(sent) : readN[i] > 0 => Len(sent[i]) = readN[i]

\* C5 (as claimed): when a run has ended at its cap block_count > 0, the bytes
\* written to a sink that opened, took every block and saw no write fail are the
\* input truncated to block_count * block_size.
C5_FileBytesEqualInput ==
    (pc = "exited" /\ result = "ok" /\ block_count > 0 /\ ProperRun
        /\ Len(sent) = block_count) =>
        \A s \in Sinks :
            (task[s] \in {"ended", "killed"} /\ failed[s] = {} /\ Len(handed[s]) = Len(sent))
                => written[s] = Expected

\* C6 (as claimed): a sink that fails to open does not abort the run: main does not
\* return the error, and the input is read before the program exits.
C6_OpenFailureDoesNotAbort ==
    (ProperRun /\ \E s \in Sinks : task[s] = "openFailed") =>
        /\ result # "err"
        /\ pc = "exited" => reads > 0

\* C7 (as claimed): a sink whose j-th write failed gets no write_block call after
\* that one.
C7_NoWriteAfterFailure ==
    ProperRun => \A s \in Sinks : \A j \in failed[s] : Len(handed[s]) = j

\* C8: what a sink has been handed is the reader's block sequence up to the number
\* of blocks the sink took, whatever the state of the other sinks (failed writes,
\* fallen behind), and a step of one sink's writer task changes neither the channel
\* nor anything of another sink.
C8_Delivered ==
    \A a \in Sinks : handedBlock[a] = SubSeq(sent, 1, Len(handedBlock[a]))

C8_Frame ==
    \A a, b \in Sinks :
        (a # b /\ next'[b] # next[b]) =>
            /\ sent' = sent
            /\ next'[a] = next[a]
            /\ handed'[a] = handed[a]
            /\ handedBlock'[a] = handedBlock[a]
            /\ written'[a] = written[a]
            /\ task'[a] = task[a]

C8_SinksIndependent == []C8_Delivered /\ [][C8_Frame]_vars

\* C8 witness: sink b had a write fail and is behind, sink a has been handed every
\* block sent.
C8_Witness ==
    \E a, b \in Sinks :
        /\ a # b
        /\ failed[b] # {}
        /\ Len(handed[b]) < Len(handed[a])
        /\ Len(sent) >= 2
        /\ Len(handed[a]) = Len(sent)

\* C9: within one sink the blocks passed to write_block are in the order the reader
\* sent them, and no block is passed twice: the channel positions of the blocks a
\* sink wrote are strictly increasing from each write to the next.
C9_WrittenInReadOrder ==
    \A s \in Sinks : \A i \in 1..(Len(handed[s]) - 1) :
        handed[s][i] < handed[s][i + 1]

\* C9 witness: one sink has written more blocks than the channel holds while the
\* other one fell behind and lagged.
C9_Witness ==
    \E a, b \in Sinks :
        /\ task[b] = "lagged"
        /\ Len(handed[a]) > Capacity

\* C10 (as claimed): with block_count = K > 0 the input is read at most K times.
C10_AtMostKReads ==
    (block_count > 0 /\ ProperRun) => reads <= block_count

\* C11 (as claimed): when the run has ended at its cap K > 0 on an input of at least
\* K blocks, every sink that opened and saw no write fail has written K blocks.
C11_AllBlocksWrittenAtExit ==
    (pc = "exited" /\ result = "ok" /\ block_count > 0 /\ ProperRun
        /\ Len(input) >= block_count * block_size /\ Len(sent) = block_count) =>
        \A s \in Sinks :
            (task[s] \in {"ended", "killed"} /\ failed[s] = {})
                => Len(handed[s]) = block_count

\* C12 (as claimed): a read error on the input ends the run with an error outcome.
C12_ReadErrorIsAnError == [][(ProperRun /\ ReadErr) => result' = "err"]_vars

\* C14 (as claimed): the blocks a sink missed by falling more than the channel's
\* capacity behind are reported for that sink: a lagged sink's output has a line
\* about the gap.
C14_LagIsReported ==
    \A s \in Sinks :
        task[s] = "lagged" => \E i \in 1..Len(printed[s]) : printed[s][i][1] = "lagged"

\* C18 (as claimed): once every writer task has stopped, the reader sends no
\* further block.
C18_ReaderStopsWhenAllSinksDead ==
    [][(pc = "loop" /\ output_files > 0
            /\ \A s \in 1..output_files : task[s] # "running") => sent' = sent]_vars

\* C20: what a sink's writer task has passed to write_block is a prefix of what the
\* reader has sent (the channel positions 1, 2, .., n with none left out), and a
\* task that lagged has stopped for good: it passes nothing more to write_block.
C20_HandedIsPrefix ==
    \A s \in Sinks :
        /\ Len(handed[s]) <= Len(sent)
        /\ \A i \in 1..Len(handed[s]) : handed[s][i] = i

C20_LaggedStops ==
    \A s \in Sinks :
        task[s] = "lagged" => (task'[s] = "lagged" /\ handed'[s] = handed[s])

C20_NoWriteAfterSkip == []C20_HandedIsPrefix /\ [][C20_LaggedStops]_vars

\* C20 witness: a sink wrote some blocks, then missed blocks and lagged, and the
\* reader has sent more than the channel holds.
C20_Witness ==
    \E s \in Sinks :
        /\ task[s] = "lagged"
        /\ Len(handed[s]) >= 1
        /\ next[s] > Len(handed[s])
        /\ Len(sent) > Capacity + 1

\* C17 (as claimed): after a run the file of an output that opened holds exactly
\* the bytes written during the run, and none of its earlier bytes.
C17_FileHoldsOnlyThisRun ==
    (pc = "exited" /\ result = "ok" /\ ProperRun) =>
        \A s \in Sinks :
            (task[s] \in {"ended", "killed", "lagged"} /\ written[s] # <<>>)
                => file[s] = written[s]

\* ---- the command line, as the claims about it read it
\* the `--`-separated group argument i of argv belongs to (the first group is 1)
GroupOf(argv, i) == Cardinality({j \in 1..(i - 1) : argv[j] = SEPARATOR}) + 1

\* the positions of the arguments of group g that name an input / a sink
InputsOf(argv, g, Norm(_)) ==
    {i \in 1..Len(argv) : GroupOf(argv, i) = g /\ argv[i].eq /\ Norm(argv[i].k) = "if"}
SinksOf(argv, g, Norm(_)) ==
    {i \in 1..Len(argv) :
        GroupOf(argv, i) = g /\ argv[i].eq /\ Norm(argv[i].k) \in {"of", "os", "ohttp"}}

\* the groups of argv that hold at least one argument
GroupsOf(argv) == {GroupOf(argv, i) : i \in {j \in 1..Len(argv) : argv[j] # SEPARATOR}}

SetMax(S) == CHOOSE x \in S : \A y \in S : y <= x

\* the input declared by the group of argument i: <<>> when it declares none
DeclaredInput(argv, i) ==
    LET ins == InputsOf(argv, GroupOf(argv, i), Lower)
    IN IF ins = {} THEN <<>> ELSE <<Lower(argv[SetMax(ins)].v)>>

\* the position in argv of the s-th of= argument
NthOutput(argv, s) ==
    LET P == {i \in 1..Len(argv) : argv[i].eq /\ Lower(argv[i].k) = "of"}
    IN CHOOSE i \in P : Cardinality({j \in P : j <= i}) = s

\* C13 (as claimed): whenever the read loop runs there is an input, at least one
\* sink and block_size > 0.
C13_LoopStartsValid ==
    pc = "loop" => (input_file # <<>> /\ output_files > 0 /\ block_size > 0)

\* C15 (as claimed): on a command line whose `--`-separated groups each declare an
\* input and a sink, the input a sink's blocks are read from is the input its own
\* group declares.
C15_SinkReadsItsOwnInput ==
    (pc = "loop" /\ \A g \in GroupsOf(args) :
                        InputsOf(args, g, Lower) # {} /\ SinksOf(args, g, Lower) # {}) =>
        \A s \in 1..output_files : DeclaredInput(args, NthOutput(args, s)) = input_file

\* C16 (as claimed): on a command line of key=value arguments and `--`, a group that
\* lacks an input or a sink makes Arguments::parse return an error, and a
\* successful parse returns one Operation per group.
C16_OneOperationPerGroup ==
    (arguments # <<>> /\ \A i \in 1..Len(args) : args[i].eq \/ args[i] = SEPARATOR) =>
        /\ (\E g \in GroupsOf(args) :
                InputsOf(args, g, Trim) = {} \/ SinksOf(args, g, Trim) = {})
             => ~arguments[1].ok
        /\ arguments[1].ok
             => Len(arguments[1].operations) = Cardinality(GroupsOf(args))

\* C19 (as claimed): every Operation Arguments::parse built holds one Http output
\* per well-formed ohttp= argument of its group.
C19_OhttpAddsHttpSink ==
    (arguments # <<>> /\ arguments[1].ok) =>
        \A g \in 1..Len(arguments[1].operations) :
            Cardinality({k \in 1..Len(arguments[1].operations[g].outputs) :
                            arguments[1].operations[g].outputs[k].kind = "Http"})
            = Cardinality({i \in 1..Len(args) :
                            /\ GroupOf(args, i) = g
                            /\ args[i].eq
                            /\ Trim(args[i].k) = "ohttp"
                            /\ SplitOnce(Trim(args[i].v), ";") # <<>>})

====
